---- MODULE Spec2Model ----
(***************************************************************************)
(* Model of the candidate service of the recruitment backend               *)
(* (backend/src/candidates): CV upload, years-of-experience derivation and *)
(* candidate ranking through the external AI scoring service.              *)
(***************************************************************************)
EXTENDS Integers, Sequences, FiniteSets, TLC

(***************************************************************************)
(* Bounds of the model.                                                    *)
(***************************************************************************)
\* longest experience list handed to calculateYearsOfExperience
MaxExp == 2
\* the wall clock runs over the months 0..MaxNow (month 0 = January of year 0)
MaxNow == 14

(***************************************************************************)
(* JavaScript values that reach the service.                               *)
(*   date strings : [k, txt, y, m]                                         *)
(*      k = "ym"        a string Date can parse; y, m are what             *)
(*                      getFullYear() / getMonth() return for it           *)
(*      k = "word"      a string Date cannot parse (txt is its text)       *)
(*      k = "undefined" the property is missing                            *)
(***************************************************************************)
Ym(y, m) == [k |-> "ym", txt |-> "", y |-> y, m |-> m]
Word(t) == [k |-> "word", txt |-> t, y |-> 0, m |-> 0]
MissingDate == [k |-> "undefined", txt |-> "", y |-> 0, m |-> 0]

\* String.prototype.toLowerCase on the texts of the model
ToLowerCase(t) ==
  CASE t = "Present" -> "present"
    [] t = "PRESENT" -> "present"
    [] OTHER -> t

\* a Date object: valid with local year and month, or Invalid Date
InvalidDate == [valid |-> FALSE, y |-> 0, m |-> 0]

\* new Date(string)
NewDate(d) ==
  IF d.k = "ym" THEN [valid |-> TRUE, y |-> d.y, m |-> d.m] ELSE InvalidDate

\* new Date() when the wall clock stands at month index clock
NewDateNow(clock) == [valid |-> TRUE, y |-> clock \div 12, m |-> clock % 12]

\* numbers: a finite value counted in tenths, or NaN
Num(t) == [k |-> "num", v |-> t]
NaN == [k |-> "NaN", v |-> 0]
\* the outcome of a call that threw a TypeError
Threw == [k |-> "TypeError", v |-> 0]

\* an array value or a missing one
Arr(s) == [t |-> "array", v |-> s]
Undefined == [t |-> "undefined", v |-> <<>>]

(***************************************************************************)
(* calculateYearsOfExperience                                              *)
(***************************************************************************)
\* the date an entry's endDate stands for; endDate.toLowerCase() is called
\* first and throws on a missing endDate (handled by the caller)
EndOf(exp, clock) ==
  IF exp.endDate.k = "word" /\ ToLowerCase(exp.endDate.txt) = "present"
    THEN NewDateNow(clock)
    ELSE NewDate(exp.endDate)

MonthsBetweenYearsOnly(start, end) == (end.y - start.y) * 12

\* (end.getFullYear() - start.getFullYear()) * 12 + (end.getMonth() - start.getMonth());
\* an Invalid Date makes the result NaN
MonthsBetween(start, end) ==
  (end.y - start.y) * 12 + (end.m - start.m)

\* Math.round(x) for x = num / den, den > 0: the integer nearest to x, halves
\* rounded up
MathRound(num, den) == (2 * num + den) \div (2 * den)

\* the for loop: total is the running sum [nan, v] before entry i
RECURSIVE YearsLoop(_, _, _, _)
YearsLoop(experience, i, total, clock) ==
  IF i > Len(experience) THEN total
  ELSE
    LET exp == experience[i] IN
    IF exp.endDate.k = "undefined" THEN Threw
    ELSE
      LET start == NewDate(exp.startDate)
          end == EndOf(exp, clock)
      IN IF total.k = "NaN" \/ ~start.valid \/ ~end.valid
           THEN YearsLoop(experience, i + 1, NaN, clock)
           ELSE YearsLoop(experience, i + 1,
                          Num(total.v + MonthsBetween(start, end)), clock)

\* experience is an array value or Undefined; the result counts tenths of years
calculateYearsOfExperience(experience, clock) ==
  IF experience.t = "undefined" \/ Len(experience.v) = 0 THEN Num(0)
  ELSE
    LET totalMonths == YearsLoop(experience.v, 1, Num(0), clock) IN
    IF totalMonths.k = "num"
      THEN Num(MathRound(totalMonths.v * 10, 12))
      ELSE totalMonths

(***************************************************************************)
(* Experience lists handed to calculateYearsOfExperience.                  *)
(***************************************************************************)
StartDates == {Ym(0, 0), Ym(0, 9), Ym(1, 3), Word("n/a"), MissingDate}
EndDates ==
  {Ym(0, 6), Ym(1, 0), Ym(1, 4), Word("present"), Word("Present"),
   Word("n/a"), MissingDate}
ExpEntries == [title : {"iOS Engineer"}, startDate : StartDates, endDate : EndDates]
ExpLists == UNION {[1..n -> ExpEntries] : n \in 0..MaxExp}


VARIABLES
  db,        \* the candidates table: a set of rows
  files,     \* the paths that exist in the upload directory
  nextId,    \* the next id PrimaryGeneratedColumn hands out
  now,       \* the wall clock, a month index
  pc,        \* per request slot: where its handler stands
  req,       \* per request slot: the request being served
  lv,        \* per request slot: the handler's local variables
  res,       \* per request slot: the response of the finished handler
  yin,       \* years function: the experience value handed in
  yout,      \* years function: the value returned
  ypc,       \* years function: "start" before the call, "done" after
  job,       \* ranking engine: the job requirement
  cand,      \* ranking engine: the candidate profile
  result,    \* ranking engine: the ScoringResult
  epc,       \* ranking engine: "start" before the scoring, "done" after
  formData,  \* ranking form: the state of the form
  posted,    \* ranking form: the body of the request the last action sent
  alerted,   \* ranking form: the message the last action alerted
  fpc        \* ranking form: what the last action on the form did

svars == <<db, files, nextId, pc, req, lv, res>>
yvars == <<yin, yout, ypc>>
evars == <<job, cand, result, epc>>
fvars == <<formData, posted, alerted, fpc>>
pvars == <<yvars, evars, fvars>>
vars ==
  <<db, files, nextId, now, pc, req, lv, res, yin, yout, ypc, job, cand,
    result, epc, formData, posted, alerted, fpc>>

(***************************************************************************)
(* The ranking form's state (RankingForm.tsx).                             *)
(***************************************************************************)
\* useState({...}): the form as first rendered
InitialFormData ==
  [jobTitle |-> "", jobDescription |-> "", requiredSkills |-> <<"">>,
   preferredSkills |-> <<"">>, minYearsExperience |-> 0,
   requiredEducation |-> ""]

\* no request sent yet
NoBody ==
  [jobTitle |-> "", jobDescription |-> "", requiredSkills |-> <<>>,
   preferredSkills |-> <<>>, minYearsExperience |-> 0,
   requiredEducation |-> ""]

\* the form is not rendered
FormOff ==
  /\ formData = InitialFormData /\ posted = NoBody /\ alerted = ""
  /\ fpc = "off"

(***************************************************************************)
(* The ranking engine of the AI service (/rank-candidates): the dimension  *)
(* scores of one candidate against one job requirement.  Texts are         *)
(* sequences of words; a score is the fraction n / d of percent points.    *)
(***************************************************************************)
Ratio(n, d) == [n |-> n, d |-> d]
IsZero(s) == s.n = 0
IsHundred(s) == s.n = 100 * s.d

\* case folding on the words of the model
Lower(w) ==
  CASE w = "Swift" -> "swift"
    [] w = "iOS" -> "ios"
    [] w = "UIKit" -> "uikit"
    [] w = "SwiftUI" -> "swiftui"
    [] w = "Combine" -> "combine"
    [] w = "Senior" -> "senior"
    [] w = "Developer" -> "developer"
    [] w = "Engineer" -> "engineer"
    [] w = "Mobile" -> "mobile"
    [] w = "Bachelor" -> "bachelor"
    [] w = "Master" -> "master"
    [] w = "Diploma" -> "diploma"
    [] w = "Science" -> "science"
    [] w = "PhD" -> "phd"
    [] w = "CoreData" -> "coredata"
    [] w = "REST API" -> "rest api"
    [] w = "TDD" -> "tdd"
    [] w = "Looking" -> "looking"
    [] w = "Computer" -> "computer"
    [] OTHER -> w

StopWords == {"of", "the", "and", "a", "in", "for", "with"}

\* Keyword Extractor: the significant lower-case tokens of a text
Keywords(text) == {Lower(text[i]) : i \in DOMAIN text} \ StopWords

\* the share of the target skills found by comparing the spellings as given
SkillsScoreCaseSensitive(candidateSkills, targetSkills) ==
  LET target == {targetSkills[i] : i \in DOMAIN targetSkills}
      have == {candidateSkills[i] : i \in DOMAIN candidateSkills}
  IN IF target = {} THEN Ratio(0, 1)
     ELSE Ratio(100 * Cardinality(target \cap have), Cardinality(target))

\* the matched target skills as a share of the candidate's skills
SkillsScoreOverCandidate(candidateSkills, targetSkills) ==
  LET target == {Lower(targetSkills[i]) : i \in DOMAIN targetSkills}
      have == {Lower(candidateSkills[i]) : i \in DOMAIN candidateSkills}
  IN IF target = {} \/ have = {} THEN Ratio(0, 1)
     ELSE Ratio(100 * Cardinality(target \cap have), Cardinality(have))

\* Skill Matcher: the share of the target skills the candidate has, matched
\* by equality after case folding; 0 for an empty target list
SkillsScore(candidateSkills, targetSkills) ==
  LET target == {Lower(targetSkills[i]) : i \in DOMAIN targetSkills}
      have == {Lower(candidateSkills[i]) : i \in DOMAIN candidateSkills}
  IN IF target = {} THEN Ratio(0, 1)
     ELSE Ratio(100 * Cardinality(target \cap have), Cardinality(target))

\* matchSkills: how many of the target skills the candidate has, of how many
MatchSkills(candidateSkills, targetSkills) ==
  LET target == {Lower(targetSkills[i]) : i \in DOMAIN targetSkills}
      have == {Lower(candidateSkills[i]) : i \in DOMAIN candidateSkills}
  IN [matchedCount |-> Cardinality(target \cap have),
      totalRequired |-> Cardinality(target)]

\* Jaccard similarity of two keyword sets, as a pair <<shared, all>>
Jaccard(a, b) ==
  IF a \cup b = {} THEN <<0, 1>>
  ELSE <<Cardinality(a \cap b), Cardinality(a \cup b)>>

\* the best Jaccard similarity over the prior titles, without the boost
JobTitleScoreUnboosted(jobTitle, experience) ==
  IF Len(experience) = 0 THEN Ratio(0, 1)
  ELSE
    LET sims == {Jaccard(Keywords(jobTitle), Keywords(experience[i].title)) :
                   i \in DOMAIN experience}
        best == CHOOSE x \in sims : \A y \in sims : x[1] * y[2] >= y[1] * x[2]
    IN Ratio(100 * best[1], best[2])

\* Title similarity: the best Jaccard similarity over the prior titles,
\* boosted by 1.5 and capped at 100%; 0 without experience entries
JobTitleScore(jobTitle, experience) ==
  IF Len(experience) = 0 THEN Ratio(0, 1)
  ELSE
    LET sims == {Jaccard(Keywords(jobTitle), Keywords(experience[i].title)) :
                   i \in DOMAIN experience}
        best == CHOOSE x \in sims : \A y \in sims : x[1] * y[2] >= y[1] * x[2]
    IN IF 3 * best[1] >= 2 * best[2] THEN Ratio(100, 1)
       ELSE Ratio(300 * best[1], 2 * best[2])

\* keyword k occurs in word w, as the whole word or as a part of it
Contains(w, k) ==
  \/ w = k
  \/ <<k, w>> \in {<<"swift", "swiftui">>, <<"develop", "developer">>,
                   <<"master", "masters">>}

RECURSIVE Concat(_)
Concat(texts) ==
  IF texts = <<>> THEN <<>> ELSE Head(texts) \o Concat(Tail(texts))

\* the combined candidate text: the skills, the titles and descriptions of
\* the experience entries and the degrees, as lower-case words
CombinedText(c) ==
  LET words ==
        c.skills
        \o Concat([i \in DOMAIN c.experience |->
                     c.experience[i].title \o c.experience[i].description])
        \o Concat([i \in DOMAIN c.education |-> c.education[i].degree])
  IN {Lower(words[i]) : i \in DOMAIN words}

\* the keywords of the job description found in the candidate text
MatchedKeywords(description, c) ==
  {k \in Keywords(description) : \E w \in CombinedText(c) : Contains(w, k)}

\* the boosted share of matched keywords, without the cap
DescriptionScoreUncapped(description, c) ==
  LET totalKeywords == Cardinality(Keywords(description))
      matchedKeywords == Cardinality(MatchedKeywords(description, c))
  IN IF totalKeywords = 0 THEN Ratio(0, 1)
     ELSE Ratio(120 * matchedKeywords, totalKeywords)

\* Description similarity: the matched share of the description's keywords,
\* boosted by 1.2 and capped at 100%; 0 when there are no keywords
DescriptionScore(description, c) ==
  LET totalKeywords == Cardinality(Keywords(description))
      matchedKeywords == Cardinality(MatchedKeywords(description, c))
  IN IF totalKeywords = 0 THEN Ratio(0, 1)
     ELSE IF 6 * matchedKeywords >= 5 * totalKeywords THEN Ratio(100, 1)
     ELSE Ratio(120 * matchedKeywords, totalKeywords)

\* the share of the requirement reached, rewarded up to 150
YearsExperienceScoreOverqualified(candidateYears, requiredYears) ==
  IF requiredYears = 0 THEN Ratio(100, 1)
  ELSE IF 2 * candidateYears >= 3 * requiredYears THEN Ratio(150, 1)
  ELSE Ratio(100 * candidateYears, requiredYears)

\* Experience-years score: 100 once the requirement is met or when there is
\* none, the reached share of it otherwise
YearsExperienceScore(candidateYears, requiredYears) ==
  IF requiredYears = 0 THEN Ratio(100, 1)
  ELSE IF candidateYears >= requiredYears THEN Ratio(100, 1)
  ELSE Ratio(100 * candidateYears, requiredYears)

\* the ordinal level a word of a degree text stands for
LevelOfWord(w) ==
  CASE Lower(w) \in {"phd", "doctorate"} -> 5
    [] Lower(w) \in {"master", "masters", "mba"} -> 4
    [] Lower(w) \in {"bachelor", "bachelors"} -> 3
    [] Lower(w) \in {"associate"} -> 2
    [] Lower(w) \in {"diploma", "certificate"} -> 1
    [] OTHER -> 0

Max(S) == CHOOSE x \in S : \A y \in S : x >= y

\* the level of a degree text: the highest level of its words, 0 if none
LevelOfText(text) == Max({0} \cup {LevelOfWord(text[i]) : i \in DOMAIN text})

\* the highest level over the candidate's education entries
CandidateLevel(education) ==
  Max({0} \cup {LevelOfText(education[i].degree) : i \in DOMAIN education})

\* full credit for the required level, none below it
EducationScoreAllOrNothing(education, requiredEducation) ==
  IF requiredEducation = <<>> THEN Ratio(100, 1)
  ELSE IF CandidateLevel(education) >= LevelOfText(requiredEducation)
    THEN Ratio(100, 1)
  ELSE Ratio(0, 1)

\* Education score
EducationScore(education, requiredEducation) ==
  IF requiredEducation = <<>> THEN Ratio(100, 1)
  ELSE
    LET candidateLevel == CandidateLevel(education)
        requiredLevel == LevelOfText(requiredEducation)
    IN IF candidateLevel >= requiredLevel THEN Ratio(100, 1)
       ELSE IF candidateLevel = requiredLevel - 1 THEN Ratio(70, 1)
       ELSE Ratio(40, 1)

\* weights that give the required skills 30 hundredths
weightsUnbalanced ==
  [job_title |-> 15, job_description |-> 15, required_skills |-> 30,
   preferred_skills |-> 10, years_experience |-> 20, education |-> 15]

\* Score Aggregator: the weights of the six dimensions, in hundredths
weights ==
  [job_title |-> 15, job_description |-> 15, required_skills |-> 25,
   preferred_skills |-> 10, years_experience |-> 20, education |-> 15]

RECURSIVE GCD(_, _)
GCD(a, b) == IF b = 0 THEN a ELSE GCD(b, a % b)

\* the weighted sum of the six dimension scores, as one fraction in lowest
\* terms
TotalScore(title, description, required, preferred, years, education) ==
  LET den == title.d * description.d * required.d * preferred.d * years.d
               * education.d
      Part(w, s) == w * s.n * (den \div s.d)
      num == Part(weights.job_title, title)
               + Part(weights.job_description, description)
               + Part(weights.required_skills, required)
               + Part(weights.preferred_skills, preferred)
               + Part(weights.years_experience, years)
               + Part(weights.education, education)
      g == GCD(100 * den, num)
  IN Ratio(num \div g, (100 * den) \div g)

\* one sentence of the reasoning: the dimension, its ratio where it has one
\* (total 0 otherwise) and its percentage
Fragment(dimension, matched, total, score) ==
  [dimension |-> dimension, matched |-> matched, total |-> total,
   score |-> score]

\* a sentence for every dimension, whatever the job asks for
ReasoningEveryDimension(j, c, scores) ==
  LET required == MatchSkills(c.skills, j.required_skills)
      preferred == MatchSkills(c.skills, j.preferred_skills)
  IN <<Fragment("jobTitle", 0, 0, scores.jobTitleScore),
       Fragment("jobDescription", 0, 0, scores.jobDescriptionScore),
       Fragment("requiredSkills", required.matchedCount,
                required.totalRequired, scores.requiredSkillsScore),
       Fragment("preferredSkills", preferred.matchedCount,
                preferred.totalRequired, scores.preferredSkillsScore),
       Fragment("yearsExperience", c.years_of_experience,
                j.min_years_experience, scores.yearsExperienceScore),
       Fragment("education", 0, 0, scores.educationScore)>>

\* Reasoning Generator: the sentences in the fixed order of the dimensions;
\* the preferred-skills sentence is left out when no skill is preferred
Reasoning(j, c, scores) ==
  LET required == MatchSkills(c.skills, j.required_skills)
      preferred == MatchSkills(c.skills, j.preferred_skills)
      all ==
        <<Fragment("jobTitle", 0, 0, scores.jobTitleScore),
          Fragment("jobDescription", 0, 0, scores.jobDescriptionScore),
          Fragment("requiredSkills", required.matchedCount,
                   required.totalRequired, scores.requiredSkillsScore),
          Fragment("preferredSkills", preferred.matchedCount,
                   preferred.totalRequired, scores.preferredSkillsScore),
          Fragment("yearsExperience", c.years_of_experience,
                   j.min_years_experience, scores.yearsExperienceScore),
          Fragment("education", 0, 0, scores.educationScore)>>
      Told(f) == f.dimension # "preferredSkills" \/ f.total # 0
  IN SelectSeq(all, Told)

\* the dimension scores of one candidate
DimensionScores(j, c) ==
  [jobTitleScore |-> JobTitleScore(j.title, c.experience),
   jobDescriptionScore |-> DescriptionScore(j.description, c),
   requiredSkillsScore |-> SkillsScore(c.skills, j.required_skills),
   preferredSkillsScore |-> SkillsScore(c.skills, j.preferred_skills),
   yearsExperienceScore |->
     YearsExperienceScore(c.years_of_experience, j.min_years_experience),
   educationScore |-> EducationScore(c.education, j.required_education)]

\* the scoring result of one candidate
ScoreCandidate(j, c) ==
  LET scores == DimensionScores(j, c)
  IN [jobTitleScore |-> scores.jobTitleScore,
      jobDescriptionScore |-> scores.jobDescriptionScore,
      requiredSkillsScore |-> scores.requiredSkillsScore,
      preferredSkillsScore |-> scores.preferredSkillsScore,
      yearsExperienceScore |-> scores.yearsExperienceScore,
      educationScore |-> scores.educationScore,
      totalScore |->
        TotalScore(scores.jobTitleScore, scores.jobDescriptionScore,
                   scores.requiredSkillsScore, scores.preferredSkillsScore,
                   scores.yearsExperienceScore, scores.educationScore),
      reasoning |-> Reasoning(j, c, scores)]

\* the job requirements and candidate profiles scored, the documented example
\* among them; years are counted in tenths
Jobs ==
  [title : {<<"Senior", "iOS", "Developer">>, <<"iOS", "Engineer">>},
   description :
     {<<"with", "the">>, <<"Swift", "and", "iOS">>,
      <<"Looking", "for", "experienced", "iOS", "developer", "with", "Swift",
        "and", "SwiftUI">>},
   required_skills :
     {<<"Swift">>, <<"Swift", "iOS", "UIKit">>,
      <<"Swift", "iOS", "UIKit", "CoreData", "REST API">>},
   preferred_skills :
     {<<>>, <<"SwiftUI", "Combine">>, <<"SwiftUI", "Combine", "TDD">>},
   min_years_experience : {0, 50},
   required_education : {<<>>, <<"Bachelor">>, <<"Diploma">>, <<"Master">>}]
Title(t) == [title |-> t, description |-> <<>>]
CandidateYears == {0, 30, 50, 60}
CandidateSkills ==
  {<<>>, <<"swift">>, <<"Swift", "iOS", "SwiftUI">>,
   <<"Swift", "iOS", "UIKit", "SwiftUI", "Combine">>}
Candidates ==
  [skills : CandidateSkills,
   experience :
     {<<>>,
      <<Title(<<"iOS", "Engineer">>), Title(<<"Mobile", "Developer">>)>>,
      <<[title |-> <<"Mobile", "Developer">>,
         description |-> <<"experienced", "in", "agile">>],
        Title(<<"Senior", "Mobile", "iOS", "Developer">>)>>},
   education :
     {<<>>, <<[degree |-> <<"Bachelor", "of", "Computer", "Science">>]>>,
      <<[degree |-> <<"Diploma">>], [degree |-> <<"Master">>]>>},
   years_of_experience : CandidateYears]
NoJob ==
  [title |-> <<>>, description |-> <<>>, required_skills |-> <<>>,
   preferred_skills |-> <<>>, min_years_experience |-> 0,
   required_education |-> <<>>]
NoCandidate ==
  [skills |-> <<>>, experience |-> <<>>, education |-> <<>>,
   years_of_experience |-> 0]
NoResult == ScoreCandidate(NoJob, NoCandidate)

ScoreInit ==
  /\ job \in Jobs /\ cand \in Candidates
  /\ result = NoResult /\ epc = "start"
  /\ db = {} /\ files = {} /\ nextId = 1 /\ now = 0
  /\ pc = <<>> /\ req = <<>> /\ lv = <<>> /\ res = <<>>
  /\ yin = Undefined /\ yout = Num(0) /\ ypc = "off"
  /\ FormOff

ScoreCall ==
  /\ epc = "start"
  /\ result' = ScoreCandidate(job, cand)
  /\ epc' = "done"
  /\ UNCHANGED <<job, cand, now, svars, yvars, fvars>>

ScoreNext == ScoreCall

SpecScore == ScoreInit /\ [][ScoreNext]_vars

(***************************************************************************)
(* The years-of-experience function on its own.                            *)
(***************************************************************************)
YearsInit ==
  /\ now \in 0..MaxNow
  /\ yin \in {Undefined} \cup {Arr(s) : s \in ExpLists}
  /\ yout = Num(0)
  /\ ypc = "start"
  /\ db = {} /\ files = {} /\ nextId = 1
  /\ pc = <<>> /\ req = <<>> /\ lv = <<>> /\ res = <<>>
  /\ job = NoJob /\ cand = NoCandidate /\ result = NoResult /\ epc = "off"
  /\ FormOff

YearsCall ==
  /\ ypc = "start"
  /\ yout' = calculateYearsOfExperience(yin, now)
  /\ ypc' = "done"
  /\ UNCHANGED <<now, yin, svars, evars, fvars>>

YearsNext == YearsCall

SpecYears == YearsInit /\ [][YearsNext]_vars
(***************************************************************************)
(* The candidate service: requests, rows and the handlers' steps.          *)
(***************************************************************************)
\* request slots; NProcs handlers may be in flight at once
NProcs == 2
Procs == 1..NProcs
\* the clock of the service runs from month 0 to month MaxTick
MaxTick == 1

Str(x) == [t |-> "string", v |-> x]
NumVal(n) == [t |-> "number", v |-> n]

\* class-validator's decorators on a property value
IsString(x) == x.t = "string"
IsArray(x) == x.t = "array"
IsNotEmpty(x) == x.t # "undefined" /\ x.t # "null" /\ ~(x.t = "string" /\ x.v = "")
IsOptional(x) == x.t \in {"undefined", "null"}

\* RankCandidatesDto as the validation pipe checks it
ValidateRankDto(dto) ==
  /\ IsString(dto.jobTitle) /\ IsNotEmpty(dto.jobTitle)
  /\ IsString(dto.jobDescription) /\ IsNotEmpty(dto.jobDescription)
  /\ IsArray(dto.requiredSkills) /\ IsNotEmpty(dto.requiredSkills)
  /\ (IsOptional(dto.preferredSkills) \/ IsArray(dto.preferredSkills))
  /\ (IsOptional(dto.requiredEducation) \/ IsString(dto.requiredEducation))

RankDto(title, required) ==
  [jobTitle |-> Str(title), jobDescription |-> Str("ios developer"),
   requiredSkills |-> required, preferredSkills |-> Undefined,
   minYearsExperience |-> NumVal(1), requiredEducation |-> Str("Bachelor")]

\* the rank requests of the model: a complete one, one with an empty
\* requiredSkills list, one without the property, one without a title
RankDtos ==
  {RankDto("iOS Developer", Arr(<<"swift">>)),
   RankDto("iOS Developer", Arr(<<>>)),
   RankDto("iOS Developer", Undefined),
   RankDto("", Arr(<<"swift">>))}
NoRankDto == RankDto("", Undefined)

\* what the AI service's /parse-cv answers
Parsed(skills, experience, education, phone) ==
  [skills |-> skills, experience |-> experience, education |-> education,
   phone |-> phone]
Exp(s, e) == [title |-> "iOS Engineer", startDate |-> s, endDate |-> e]

\* the CV files of the model, by what the parser extracts from them
ParseCv(cv) ==
  CASE cv = "current job" ->
         Parsed(Arr(<<"swift">>), Arr(<<Exp(Ym(0, 0), Word("present"))>>),
                Arr(<<[degree |-> "Bachelor of Science"]>>), "777")
    [] cv = "no end date" ->
         Parsed(Arr(<<"swift">>),
                Arr(<<Exp(Ym(0, 0), Ym(1, 0)), Exp(Ym(0, 0), MissingDate)>>),
                Arr(<<>>), "")
    [] cv = "bad start date" ->
         Parsed(Arr(<<>>),
                Arr(<<Exp(Ym(0, 0), Ym(1, 0)), Exp(Word("n/a"), Ym(1, 0))>>),
                Arr(<<>>), "")
    [] OTHER -> Parsed(Undefined, Undefined, Undefined, "")
\* parseCvWithAI's catch branch
ParseFailed == Parsed(Arr(<<>>), Arr(<<>>), Arr(<<>>), "")

\* the upload requests of the model
UploadReq(hasFile, mimetype, cv, email, phone) ==
  [hasFile |-> hasFile, mimetype |-> mimetype, originalname |-> "cv", cv |-> cv,
   email |-> email, fullName |-> "N", phone |-> phone]
Pdf == "application/pdf"
Docx == "application/vnd.openxmlformats-officedocument.wordprocessingml.document"
\* two uploads of a CV with a current job, under different addresses; two
\* uploads whose CV has a missing or an unparsable date; an upload of a CV
\* the parser extracts nothing from; two uploads the controller turns away
UploadReqs ==
  {UploadReq(TRUE, Pdf, "current job", "a@x", ""),
   UploadReq(TRUE, Docx, "current job", "b@x", "555"),
   UploadReq(TRUE, Pdf, "no end date", "a@x", ""),
   UploadReq(TRUE, Pdf, "bad start date", "b@x", ""),
   UploadReq(TRUE, Docx, "empty", "b@x", ""),
   UploadReq(FALSE, "", "", "a@x", ""),
   UploadReq(TRUE, "image/png", "current job", "a@x", "")}
NoUploadReq == UploadReq(FALSE, "", "", "", "")

allowedMimeTypes == {Pdf, Docx}

\* x || [] on an array property
OrEmpty(x) == IF x.t = "array" THEN x.v ELSE <<>>
\* a || b on strings ("" stands for a missing or null string)
OrStr(a, b) == IF a # "" THEN a ELSE b

NullDetails == [job |-> "null", overallScore |-> 0]

\* candidatesRepository.create({...}) in uploadCv, with the column defaults
NewCandidate(id, dto, parsedData, filePath, clock) ==
  [id |-> id,
   email |-> dto.email,
   fullName |-> dto.fullName,
   phone |-> OrStr(dto.phone, parsedData.phone),
   skills |-> OrEmpty(parsedData.skills),
   experience |-> OrEmpty(parsedData.experience),
   education |-> OrEmpty(parsedData.education),
   cvFilePath |-> filePath,
   yearsOfExperience |-> calculateYearsOfExperience(parsedData.experience, clock),
   status |-> "pending",
   score |-> 0,
   scoringDetails |-> NullDetails]

\* the locals of a handler
NoLocals ==
  [filePath |-> <<>>, parsedData |-> ParseFailed, candidates |-> <<>>,
   called |-> FALSE, resp |-> <<>>, i |-> 0, writes |-> 0,
   id |-> 0, candidate |-> <<>>]
NoRequest == [op |-> "none", upload |-> NoUploadReq, rank |-> NoRankDto]
NoResponse == [status |-> "none", msg |-> "", value |-> <<>>]
Ok(value) == [status |-> "ok", msg |-> "", value |-> value]
Failure(status, msg) == [status |-> status, msg |-> msg, value |-> <<>>]

Init ==
  /\ db = {} /\ files = {} /\ nextId = 1 /\ now = 0
  /\ pc = [p \in Procs |-> "idle"]
  /\ req = [p \in Procs |-> NoRequest]
  /\ lv = [p \in Procs |-> NoLocals]
  /\ res = [p \in Procs |-> NoResponse]
  /\ yin = Undefined /\ yout = Num(0) /\ ypc = "off"
  /\ FormOff
  /\ job = NoJob /\ cand = NoCandidate /\ result = NoResult /\ epc = "off"

Free(p) == pc[p] \in {"idle", "done"}

\* a handler ends: the response is recorded
Finish(p, response) ==
  /\ pc' = [pc EXCEPT ![p] = "done"]
  /\ res' = [res EXCEPT ![p] = response]

Tick ==
  /\ now < MaxTick
  /\ now' = now + 1
  /\ UNCHANGED <<svars, pvars>>

(***************************************************************************)
(* POST /candidates/upload                                                 *)
(***************************************************************************)
\* the check that a file was sent, without the check of its type
UploadRejectionFileOnly(r) ==
  IF ~r.hasFile THEN "File is required" ELSE ""

\* the controller's checks of the uploaded file: the message of the
\* BadRequestException thrown, "" when the request goes on to the service
UploadRejection(r) ==
  IF ~r.hasFile THEN "File is required"
  ELSE IF r.mimetype \notin allowedMimeTypes THEN "Only PDF and DOCX files are allowed"
  ELSE ""

\* uploadCv's findOne({where: {email}}) found a candidate
ExistingCandidate(d, email) == \E c \in d : c.email = email

\* the controller's checks, then uploadCv up to the check of the address
UploadBegin(p, r) ==
  /\ Free(p)
  /\ req' = [req EXCEPT ![p] = [op |-> "upload", upload |-> r, rank |-> NoRankDto]]
  /\ lv' = [lv EXCEPT ![p] = NoLocals]
  /\ IF UploadRejection(r) # ""
       THEN Finish(p, Failure("BadRequest", UploadRejection(r)))
       ELSE IF ExistingCandidate(db, r.email)
         THEN Finish(p, Failure("BadRequest", "Candidate with this email already exists"))
         ELSE /\ pc' = [pc EXCEPT ![p] = "u_write"]
              /\ res' = [res EXCEPT ![p] = NoResponse]
  /\ UNCHANGED <<db, files, nextId, now, pvars>>

\* the file is written under `${Date.now()}-${file.originalname}` and the
\* request to /parse-cv is sent
UploadWrite(p) ==
  /\ pc[p] = "u_write"
  /\ LET filePath == <<now, req[p].upload.originalname>> IN
       /\ files' = files \cup {filePath}
       /\ lv' = [lv EXCEPT ![p].filePath = filePath]
  /\ pc' = [pc EXCEPT ![p] = "u_parse"]
  /\ UNCHANGED <<db, nextId, now, req, res, pvars>>

\* the save on a table without the unique constraint on the address
UploadSaveNoConstraint(p, parsedData) ==
  /\ pc[p] = "u_parse"
  /\ lv' = [lv EXCEPT ![p].parsedData = parsedData]
  /\ LET candidate == NewCandidate(nextId, req[p].upload, parsedData,
                                   lv[p].filePath, now)
     IN IF candidate.yearsOfExperience = Threw
          THEN /\ Finish(p, Failure("TypeError", "Cannot read properties of undefined"))
               /\ UNCHANGED <<db, nextId>>
          ELSE /\ db' = db \cup {candidate}
               /\ nextId' = nextId + 1
               /\ Finish(p, Ok(<<candidate>>))
  /\ UNCHANGED <<files, now, req, pvars>>

\* an upload that ends with the parser's failure
UploadSaveRethrow(p, parsedData) ==
  /\ pc[p] = "u_parse"
  /\ lv' = [lv EXCEPT ![p].parsedData = parsedData]
  /\ LET candidate == NewCandidate(nextId, req[p].upload, parsedData,
                                   lv[p].filePath, now)
     IN IF parsedData = ParseFailed
          THEN /\ Finish(p, Failure("BadRequest", "Failed to parse CV"))
               /\ UNCHANGED <<db, nextId>>
          ELSE IF candidate.yearsOfExperience = Threw
            THEN /\ Finish(p, Failure("TypeError", "Cannot read properties of undefined"))
                 /\ UNCHANGED <<db, nextId>>
            ELSE IF ExistingCandidate(db, candidate.email)
              THEN /\ Finish(p, Failure("QueryFailedError", "duplicate key"))
                   /\ UNCHANGED <<db, nextId>>
              ELSE /\ db' = db \cup {candidate}
                   /\ nextId' = nextId + 1
                   /\ Finish(p, Ok(<<candidate>>))
  /\ UNCHANGED <<files, now, req, pvars>>

\* parseCvWithAI returns (the service's answer, or the catch branch's
\* structure); the candidate is created and saved
UploadSave(p, parsedData) ==
  /\ pc[p] = "u_parse"
  /\ lv' = [lv EXCEPT ![p].parsedData = parsedData]
  /\ LET candidate == NewCandidate(nextId, req[p].upload, parsedData,
                                   lv[p].filePath, now)
     IN IF candidate.yearsOfExperience = Threw
          THEN /\ Finish(p, Failure("TypeError", "Cannot read properties of undefined"))
               /\ UNCHANGED <<db, nextId>>
          ELSE IF ExistingCandidate(db, candidate.email)
            THEN /\ Finish(p, Failure("QueryFailedError", "duplicate key"))
                 /\ UNCHANGED <<db, nextId>>
            ELSE /\ db' = db \cup {candidate}
                 /\ nextId' = nextId + 1
                 /\ Finish(p, Ok(<<candidate>>))
  /\ UNCHANGED <<files, now, req, pvars>>

(***************************************************************************)
(* POST /candidates/rank                                                   *)
(***************************************************************************)
\* every order in which a query may return the rows of d
Find(d) ==
  {s \in [1..Cardinality(d) -> d] : \A i, j \in DOMAIN s : i # j => s[i] # s[j]}

FindUnordered(d) == Find(d)

\* find({order: {score: 'DESC'}}): rows of equal score come in any order
FindOrderByScoreDesc(d) ==
  {s \in Find(d) : \A i, j \in DOMAIN s : i < j => s[i].score >= s[j].score}

NeverEmpty(candidates) == FALSE

\* candidates.length === 0
NoCandidates(candidates) == Len(candidates) = 0

\* x || 0 on a number that may be NaN
OrZero(x) == IF x.k = "num" THEN x.v ELSE 0

\* the candidates array of the request to /rank-candidates
ScorerCandidates(candidates) ==
  [i \in DOMAIN candidates |->
     [id |-> candidates[i].id,
      email |-> candidates[i].email,
      full_name |-> candidates[i].fullName,
      skills |-> candidates[i].skills,
      experience |-> candidates[i].experience,
      education |-> candidates[i].education,
      years_of_experience |-> OrZero(candidates[i].yearsOfExperience)]]

\* the scores the AI service may assign
Scores == {40, 80}

\* what /rank-candidates may answer: one entry per candidate sent, in any
\* order, each with a score
ScorerResponses(dto, sent) ==
  LET ids == {sent[i].id : i \in DOMAIN sent}
      entries == {[candidate_id |-> id, score |-> sc,
                   scoring_details |-> [job |-> dto.jobTitle.v, overallScore |-> sc]] :
                    id \in ids, sc \in Scores}
  IN {s \in [1..Len(sent) -> entries] :
        \A i, j \in DOMAIN s : i # j => s[i].candidate_id # s[j].candidate_id}

UpdateTargetByPosition(candidates, rankedCandidates, i) == candidates[i].id

\* update({ id: rankedCandidate.candidate_id }, ...)
UpdateTarget(candidates, rankedCandidates, i) == rankedCandidates[i].candidate_id

UpdatedRowAndStatus(row, rankedCandidate) ==
  [row EXCEPT !.score = rankedCandidate.score,
              !.scoringDetails = rankedCandidate.scoring_details,
              !.status = "reviewed"]

\* the columns update() sets
UpdatedRow(row, rankedCandidate) ==
  [row EXCEPT !.score = rankedCandidate.score,
              !.scoringDetails = rankedCandidate.scoring_details]

\* candidatesRepository.update({id}, {score, scoringDetails})
Update(d, id, rankedCandidate) ==
  {IF row.id = id THEN UpdatedRow(row, rankedCandidate) ELSE row : row \in d}

\* the validation of the body, then rankCandidates up to the request to the
\* AI service
RankBegin(p, dto) ==
  /\ Free(p)
  /\ req' = [req EXCEPT ![p] = [op |-> "rank", upload |-> NoUploadReq, rank |-> dto]]
  /\ IF ~ValidateRankDto(dto)
       THEN /\ lv' = [lv EXCEPT ![p] = NoLocals]
            /\ Finish(p, Failure("BadRequest", "validation"))
       ELSE \E candidates \in Find(db) :
              IF NoCandidates(candidates)
                THEN /\ lv' = [lv EXCEPT ![p] = NoLocals]
                     /\ Finish(p, Ok(<<>>))
                ELSE /\ lv' = [lv EXCEPT ![p] =
                                 [NoLocals EXCEPT !.candidates = candidates,
                                                  !.called = TRUE]]
                     /\ pc' = [pc EXCEPT ![p] = "r_score"]
                     /\ res' = [res EXCEPT ![p] = NoResponse]
  /\ UNCHANGED <<db, files, nextId, now, pvars>>

\* the AI service answers
RankScored(p) ==
  /\ pc[p] = "r_score"
  /\ \E rankedCandidates \in
         ScorerResponses(req[p].rank, ScorerCandidates(lv[p].candidates)) :
       lv' = [lv EXCEPT ![p].resp = rankedCandidates, ![p].i = 1]
  /\ pc' = [pc EXCEPT ![p] = "r_update"]
  /\ UNCHANGED <<db, files, nextId, now, req, res, pvars>>

\* the AI service fails or times out: the catch block
RankScorerFail(p) ==
  /\ pc[p] = "r_score"
  /\ Finish(p, Failure("BadRequest",
                       "Failed to rank candidates. AI service may be unavailable."))
  /\ UNCHANGED <<db, files, nextId, now, req, lv, pvars>>

\* one turn of the update loop
RankUpdate(p) ==
  /\ pc[p] = "r_update"
  /\ lv[p].i <= Len(lv[p].resp)
  /\ db' = Update(db, UpdateTarget(lv[p].candidates, lv[p].resp, lv[p].i),
                  lv[p].resp[lv[p].i])
  /\ lv' = [lv EXCEPT ![p].i = @ + 1, ![p].writes = @ + 1]
  /\ UNCHANGED <<files, nextId, now, pc, req, res, pvars>>

\* an update is rejected by the database: the catch block
RankUpdateFail(p) ==
  /\ pc[p] = "r_update"
  /\ lv[p].i <= Len(lv[p].resp)
  /\ Finish(p, Failure("BadRequest",
                       "Failed to rank candidates. AI service may be unavailable."))
  /\ UNCHANGED <<db, files, nextId, now, req, lv, pvars>>

\* the loop is over: the ordered re-read is returned
RankFetch(p) ==
  /\ pc[p] = "r_update"
  /\ lv[p].i > Len(lv[p].resp)
  /\ \E ranked \in FindOrderByScoreDesc(db) : Finish(p, Ok(ranked))
  /\ UNCHANGED <<db, files, nextId, now, req, lv, pvars>>

RankStep(p) ==
  \/ \E dto \in RankDtos : RankBegin(p, dto)
  \/ RankScored(p)
  \/ RankScorerFail(p)
  \/ RankUpdate(p)
  \/ RankUpdateFail(p)
  \/ RankFetch(p)

UploadStep(p) ==
  \/ \E r \in UploadReqs : UploadBegin(p, r)
  \/ UploadWrite(p)
  \/ \E parsedData \in {ParseCv(req[p].upload.cv), ParseFailed} : UploadSave(p, parsedData)

\* requests are served one at a time by slot 1
Serial(p) == p = 1

Next ==
  \/ Tick
  \/ \E p \in Procs : Serial(p) /\ UploadStep(p)
  \/ \E p \in Procs : Serial(p) /\ RankStep(p)

Spec == Init /\ [][Next]_vars

(***************************************************************************)
(* DELETE /candidates/:id                                                  *)
(***************************************************************************)
\* the ids hand out by the table; 0 stands for a text that is no UUID
MaxId == 2
IsUuid(id) == id > 0

\* findOne({ where: { id } }): the rows found
RowsById(d, id) == {row \in d : row.id = id}

\* the ids a delete request may name
DeleteIds == 0..MaxId

\* deleteCandidate up to the end of findOne; the uuid column rejects a text
\* that is no UUID
DeleteBegin(p, id) ==
  /\ Free(p)
  /\ req' = [req EXCEPT ![p] = [op |-> "delete", upload |-> NoUploadReq, rank |-> NoRankDto]]
  /\ IF ~IsUuid(id)
       THEN /\ lv' = [lv EXCEPT ![p] = [NoLocals EXCEPT !.id = id]]
            /\ Finish(p, Failure("QueryFailedError",
                                 "invalid input syntax for type uuid"))
       ELSE IF RowsById(db, id) = {}
         THEN /\ lv' = [lv EXCEPT ![p] = [NoLocals EXCEPT !.id = id]]
              /\ Finish(p, Failure("NotFound", "Candidate with ID not found"))
         ELSE /\ \E candidate \in RowsById(db, id) :
                   lv' = [lv EXCEPT ![p] = [NoLocals EXCEPT !.id = id,
                                                           !.candidate = candidate]]
              /\ pc' = [pc EXCEPT ![p] = "d_unlink"]
              /\ res' = [res EXCEPT ![p] = NoResponse]
  /\ UNCHANGED <<db, files, nextId, now, pvars>>

\* the CV file is removed if it exists (unlinkSync may throw, which is
\* caught), and the request to /cleanup-candidate is sent
DeleteUnlink(p) ==
  /\ pc[p] = "d_unlink"
  /\ IF lv[p].candidate.cvFilePath \in files
       THEN \/ files' = files \ {lv[p].candidate.cvFilePath}
            \/ UNCHANGED files
       ELSE UNCHANGED files
  /\ lv' = [lv EXCEPT ![p].called = TRUE]
  /\ pc' = [pc EXCEPT ![p] = "d_cleanup"]
  /\ UNCHANGED <<db, nextId, now, req, res, pvars>>

\* a cleanup request whose failure ends the handler
DeleteCleanupRethrow(p) ==
  /\ pc[p] = "d_cleanup"
  /\ \E answered \in BOOLEAN :
       /\ lv' = [lv EXCEPT ![p].resp = <<answered>>]
       /\ IF answered
            THEN pc' = [pc EXCEPT ![p] = "d_delete"] /\ UNCHANGED res
            ELSE Finish(p, Failure("BadRequest", "cleanup failed"))
  /\ UNCHANGED <<db, files, nextId, now, req, pvars>>

\* the AI service answers the cleanup request, or the request fails and the
\* catch block logs it
DeleteCleanup(p) ==
  /\ pc[p] = "d_cleanup"
  /\ \E answered \in BOOLEAN : lv' = [lv EXCEPT ![p].resp = <<answered>>]
  /\ pc' = [pc EXCEPT ![p] = "d_delete"]
  /\ UNCHANGED <<db, files, nextId, now, req, res, pvars>>

\* the row is deleted whatever the file removal and the cleanup did
DeleteRowForced(p) ==
  /\ pc[p] = "d_delete"
  /\ db' = db \ RowsById(db, lv[p].id)
  /\ Finish(p, Ok(<<>>))
  /\ UNCHANGED <<files, nextId, now, req, lv, pvars>>

\* candidatesRepository.delete(id) and the check of result.affected
DeleteRow(p) ==
  /\ pc[p] = "d_delete"
  /\ db' = db \ RowsById(db, lv[p].id)
  /\ IF Cardinality(RowsById(db, lv[p].id)) = 0
       THEN Finish(p, Failure("NotFound", "Candidate with ID not found"))
       ELSE Finish(p, Ok(<<>>))
  /\ UNCHANGED <<files, nextId, now, req, lv, pvars>>

DeleteStep(p) ==
  \/ \E id \in DeleteIds : DeleteBegin(p, id)
  \/ DeleteUnlink(p)
  \/ DeleteCleanup(p)
  \/ DeleteRow(p)

(***************************************************************************)
(* Uploads in flight at once: every slot takes requests, and the steps of  *)
(* the handlers interleave at their awaits.                                *)
(***************************************************************************)
\* the uploads sent at once: the CV with a current job, under either address
ConcUploadReqs ==
  {r \in UploadReqs : UploadRejection(r) = "" /\ r.cv = "current job"}

ConcUploadStep(p) ==
  \/ \E r \in ConcUploadReqs : UploadBegin(p, r)
  \/ UploadWrite(p)
  \/ \E parsedData \in {ParseCv(req[p].upload.cv), ParseFailed} : UploadSave(p, parsedData)

ConcNext ==
  \/ Tick
  \/ \E p \in Procs : ConcUploadStep(p)

SpecConc == Init /\ [][ConcNext]_vars

(***************************************************************************)
(* Deletes in flight at once, between uploads served by slot 1.  At most   *)
(* MaxId candidates are ever stored; the uploads carry files of different  *)
(* names, arrive within one tick of the clock and are parsed.              *)
(***************************************************************************)
DelUploadReqs ==
  {[r EXCEPT !.originalname = IF r.mimetype = Pdf THEN "a.pdf" ELSE "b.docx"] :
     r \in ConcUploadReqs}

DelUploadStep(p) ==
  \/ \E r \in DelUploadReqs : nextId <= MaxId /\ UploadBegin(p, r)
  \/ UploadWrite(p)
  \/ UploadSave(p, ParseCv(req[p].upload.cv))

DelNext ==
  \/ \E p \in Procs : Serial(p) /\ DelUploadStep(p)
  \/ \E p \in Procs : DeleteStep(p)

SpecDel == Init /\ [][DelNext]_vars

(***************************************************************************)
(* Rankings in flight at once, for two jobs, while slot 1 also serves      *)
(* uploads.                                                                *)
(***************************************************************************)
\* two complete rank requests for different jobs
ConcRankDtos ==
  {RankDto("iOS Developer", Arr(<<"swift">>)),
   RankDto("Android Developer", Arr(<<"kotlin">>))}

\* the scorer is a function of the job and the candidate: the candidates of
\* the model, who all have the same profile, get the same score for a job
JobScore(dto) == IF dto.jobTitle.v = "iOS Developer" THEN 80 ELSE 40

\* the AI service answers, with the candidates in the order they were sent
ConcRankScored(p) ==
  /\ RankScored(p)
  /\ \A i \in DOMAIN lv'[p].resp :
       /\ lv'[p].resp[i].score = JobScore(req[p].rank)
       /\ lv'[p].resp[i].candidate_id = lv[p].candidates[i].id

ConcRankStep(p) ==
  \/ \E dto \in ConcRankDtos : RankBegin(p, dto)
  \/ ConcRankScored(p)
  \/ RankScorerFail(p)
  \/ RankUpdate(p)
  \/ RankUpdateFail(p)
  \/ RankFetch(p)

RankNext ==
  \/ \E p \in Procs : Serial(p) /\ DelUploadStep(p)
  \/ \E p \in Procs : ConcRankStep(p)

SpecRank == Init /\ [][RankNext]_vars

(***************************************************************************)
(* The ranking form: its fields, the two lists of skill inputs and the     *)
(* submit handler.  List positions count from 1.                           *)
(***************************************************************************)
\* the longest list of skill inputs
MaxFields == 2

\* what may be typed into a text input
Texts == {"", " ", "Swift"}

\* s.trim()
Trim(s) == IF s = " " THEN "" ELSE s

\* parseInt(e.target.value) || 0
ParseIntOrZero(s) == IF s = "5" THEN 5 ELSE 0

\* list.filter((_, i) => i !== index)
RemoveAt(list, index) ==
  [i \in 1..(Len(list) - 1) |-> IF i < index THEN list[i] ELSE list[i + 1]]

\* list.filter(s => s.trim() !== '')
NonBlank(list) == SelectSeq(list, LAMBDA x : Trim(x) # "")

FormInit ==
  /\ formData = InitialFormData /\ posted = NoBody /\ alerted = ""
  /\ fpc = "editing"
  /\ db = {} /\ files = {} /\ nextId = 1 /\ now = 0
  /\ pc = <<>> /\ req = <<>> /\ lv = <<>> /\ res = <<>>
  /\ yin = Undefined /\ yout = Num(0) /\ ypc = "off"
  /\ job = NoJob /\ cand = NoCandidate /\ result = NoResult /\ epc = "off"

\* setFormData(...) in an action other than the submit
Edited(newFormData) ==
  /\ formData' = newFormData
  /\ fpc' = "editing"
  /\ posted' = NoBody /\ alerted' = ""
  /\ UNCHANGED <<now, svars, yvars, evars>>

\* the onChange handlers of the title, the description and the education
SetText(field, value) ==
  /\ field \in {"jobTitle", "jobDescription", "requiredEducation"}
  /\ Edited([formData EXCEPT ![field] = value])

\* the onChange handler of the years
SetYears(value) ==
  Edited([formData EXCEPT !.minYearsExperience = ParseIntOrZero(value)])

addSkillField(type) ==
  IF type = "required"
    THEN /\ Len(formData.requiredSkills) < MaxFields
         /\ Edited([formData EXCEPT !.requiredSkills = Append(@, "")])
    ELSE /\ Len(formData.preferredSkills) < MaxFields
         /\ Edited([formData EXCEPT !.preferredSkills = Append(@, "")])

\* the removal without the refill of an emptied required list
removeSkillFieldPlain(type, index) ==
  IF type = "required"
    THEN /\ index \in DOMAIN formData.requiredSkills
         /\ Edited([formData EXCEPT
                      !.requiredSkills = RemoveAt(formData.requiredSkills, index)])
    ELSE /\ index \in DOMAIN formData.preferredSkills
         /\ Edited([formData EXCEPT
                      !.preferredSkills = RemoveAt(formData.preferredSkills, index)])

removeSkillField(type, index) ==
  IF type = "required"
    THEN /\ index \in DOMAIN formData.requiredSkills
         /\ LET newSkills == RemoveAt(formData.requiredSkills, index)
            IN Edited([formData EXCEPT
                         !.requiredSkills =
                           IF Len(newSkills) > 0 THEN newSkills ELSE <<"">>])
    ELSE /\ index \in DOMAIN formData.preferredSkills
         /\ LET newSkills == RemoveAt(formData.preferredSkills, index)
            IN Edited([formData EXCEPT !.preferredSkills = newSkills])

updateSkill(type, index, value) ==
  IF type = "required"
    THEN /\ index \in DOMAIN formData.requiredSkills
         /\ Edited([formData EXCEPT !.requiredSkills[index] = value])
    ELSE /\ index \in DOMAIN formData.preferredSkills
         /\ Edited([formData EXCEPT !.preferredSkills[index] = value])

\* the submit without the filter of the blank skill inputs
handleSubmitUnfiltered ==
  /\ IF formData.jobTitle = "" \/ formData.jobDescription = ""
       THEN /\ alerted' = "Please fill in job title and description"
            /\ fpc' = "alerted"
            /\ posted' = NoBody
       ELSE /\ posted' = formData
            /\ fpc' = "posted"
            /\ alerted' = ""
  /\ UNCHANGED <<formData, now, svars, yvars, evars>>

\* handleSubmit up to the request to /api/candidates/rank
handleSubmit ==
  /\ IF formData.jobTitle = "" \/ formData.jobDescription = ""
       THEN /\ alerted' = "Please fill in job title and description"
            /\ fpc' = "alerted"
            /\ posted' = NoBody
       ELSE LET requiredSkills == NonBlank(formData.requiredSkills)
            IN IF Len(requiredSkills) = 0
                 THEN /\ alerted' = "Please add at least one required skill"
                      /\ fpc' = "alerted"
                      /\ posted' = NoBody
                 ELSE /\ posted' =
                           [jobTitle |-> formData.jobTitle,
                            jobDescription |-> formData.jobDescription,
                            requiredSkills |-> requiredSkills,
                            preferredSkills |-> NonBlank(formData.preferredSkills),
                            minYearsExperience |-> formData.minYearsExperience,
                            requiredEducation |-> formData.requiredEducation]
                      /\ fpc' = "posted"
                      /\ alerted' = ""
  /\ UNCHANGED <<formData, now, svars, yvars, evars>>

FormNext ==
  \/ \E field \in {"jobTitle", "jobDescription", "requiredEducation"},
        value \in Texts : SetText(field, value)
  \/ \E value \in {"", "5"} : SetYears(value)
  \/ \E type \in {"required", "preferred"} : addSkillField(type)
  \/ \E type \in {"required", "preferred"}, index \in 1..MaxFields :
        removeSkillField(type, index)
  \/ \E type \in {"required", "preferred"}, index \in 1..MaxFields,
        value \in Texts : updateSkill(type, index, value)
  \/ handleSubmit

SpecForm == FormInit /\ [][FormNext]_vars

(***************************************************************************)
(* C6: what calculateYearsOfExperience returns for well-formed dates.      *)
(***************************************************************************)
IsPresent(d) == d.k = "word" /\ d.txt \in {"present", "Present", "PRESENT"}
WellFormedEntry(e) == e.startDate.k = "ym" /\ (e.endDate.k = "ym" \/ IsPresent(e.endDate))

\* a date as a count of months, "present" standing for the clock
MonthIndex(d, clock) == IF IsPresent(d) THEN clock ELSE d.y * 12 + d.m

RECURSIVE SumMonths(_, _)
SumMonths(list, clock) ==
  IF list = <<>> THEN 0
  ELSE (MonthIndex(Head(list).endDate, clock) - MonthIndex(Head(list).startDate, clock))
       + SumMonths(Tail(list), clock)

Abs(x) == IF x < 0 THEN -x ELSE x

\* C6: for an experience list whose dates are all well-formed the function
\* returns the plain sum of the entries' month differences (overlapping
\* intervals added, not merged) divided by 12 and rounded to the nearest
\* tenth; for an empty or absent list it returns 0.
C6_YearsIsRoundedSum ==
  ypc = "done" =>
    /\ (yin.t = "undefined" \/ Len(yin.v) = 0) => yout = Num(0)
    /\ (yin.t = "array" /\ \A i \in 1..Len(yin.v) : WellFormedEntry(yin.v[i])) =>
          /\ yout.k = "num"
          /\ Abs(12 * yout.v - 10 * SumMonths(yin.v, now)) <= 6

\* two well-formed entries whose intervals overlap have been summed
C6_Witness ==
  /\ ypc = "done"
  /\ yin.t = "array" /\ Len(yin.v) = 2
  /\ \A i \in 1..2 : WellFormedEntry(yin.v[i])
  /\ MonthIndex(yin.v[2].startDate, now) < MonthIndex(yin.v[1].endDate, now)
  /\ MonthIndex(yin.v[1].startDate, now) < MonthIndex(yin.v[2].endDate, now)
  /\ MonthIndex(yin.v[1].startDate, now) < MonthIndex(yin.v[1].endDate, now)
  /\ MonthIndex(yin.v[2].startDate, now) < MonthIndex(yin.v[2].endDate, now)
  /\ yout.k = "num"
  /\ yout.v > 0
(***************************************************************************)
(* Properties of the rank and upload handlers.                             *)
(***************************************************************************)
RankOf(p) == req[p].op = "rank"
RankDone(p) == RankOf(p) /\ pc[p] = "done"
RankSucceeded(p) == RankDone(p) /\ res[p].status = "ok"
\* the service method was entered: the body passed the validation
RankInvoked(p) == RankOf(p) /\ ~(pc[p] = "done" /\ res[p].msg = "validation")

Range(s) == {s[i] : i \in DOMAIN s}
PositionOf(s, id) == CHOOSE k \in DOMAIN s : s[k].id = id

\* C1: a rank request whose requiredSkills list is empty is rejected with a
\* validation error before ranking begins: the AI service is not called, no
\* score is written and no list is returned.
C1_EmptyRequiredSkillsRejected ==
  \A p \in Procs :
    (RankOf(p) /\ req[p].rank.requiredSkills = Arr(<<>>)) =>
      /\ ~lv[p].called
      /\ lv[p].writes = 0
      /\ pc[p] = "done"
      /\ res[p].status = "BadRequest"
      /\ res[p].msg = "validation"

\* C2: rankCandidates invoked on an empty candidates table returns an empty
\* list without an error, without calling the AI service and without
\* writing a score.
C2_NoCandidatesEmptyResult ==
  \A p \in Procs :
    (RankDone(p) /\ RankInvoked(p) /\ lv[p].candidates = <<>>) =>
      /\ res[p] = Ok(<<>>)
      /\ ~lv[p].called
      /\ lv[p].writes = 0

\* a rank request that passed validation has returned on an empty table
C2_Witness ==
  \E p \in Procs :
    /\ RankDone(p) /\ RankInvoked(p)
    /\ lv[p].candidates = <<>>
    /\ db = {}
    /\ res[p].status = "ok"

\* C3: the list a successful rankCandidates returns is in non-increasing
\* order of score.
C3_ResultSortedByScore ==
  \A p \in Procs :
    RankSucceeded(p) =>
      \A i \in 1..(Len(res[p].value) - 1) :
        res[p].value[i].score >= res[p].value[i + 1].score

\* a ranking has returned two candidates of different scores
C3_Witness ==
  \E p \in Procs :
    /\ RankSucceeded(p)
    /\ lv[p].writes = 2
    /\ Len(res[p].value) = 2
    /\ res[p].value[1].score > res[p].value[2].score

\* C4: candidates of equal score come in the result in the order they had in
\* the list sent to the AI service.
C4_StableRanking ==
  \A p \in Procs :
    (RankSucceeded(p) /\ lv[p].called) =>
      \A i, j \in DOMAIN res[p].value :
        (i < j /\ res[p].value[i].score = res[p].value[j].score) =>
          PositionOf(lv[p].candidates, res[p].value[i].id)
            < PositionOf(lv[p].candidates, res[p].value[j].id)

\* C5: after a ranking every candidate sent carries the score (and details)
\* the AI service's answer gives for that candidate's id, in the table and in
\* the list returned, whatever the order of the list sent and of the answer.
C5_ScoreAttachedById ==
  \A p \in Procs :
    (RankSucceeded(p) /\ lv[p].called) =>
      \A k \in DOMAIN lv[p].resp :
        LET entry == lv[p].resp[k] IN
          /\ \E row \in Range(res[p].value) : row.id = entry.candidate_id
          /\ \A row \in Range(res[p].value) \cup db :
               row.id = entry.candidate_id =>
                 /\ row.score = entry.score
                 /\ row.scoringDetails = entry.scoring_details

\* a ranking has returned whose answer listed the two candidates in the
\* order opposite to the list sent, with different scores
C5_Witness ==
  \E p \in Procs :
    /\ RankSucceeded(p)
    /\ Len(lv[p].candidates) = 2 /\ Len(lv[p].resp) = 2
    /\ lv[p].resp[1].candidate_id = lv[p].candidates[2].id
    /\ lv[p].resp[1].score # lv[p].resp[2].score

\* the request reached the creation of the candidate
UploadParsed(p) == req[p].op = "upload" /\ pc[p] = "done" /\ lv[p].filePath # <<>>

\* C7: an experience entry with a malformed or missing date contributes zero
\* months: the upload completes and the stored years are those of the
\* well-formed entries.
C7_MalformedDatesContributeZero ==
  \A p \in Procs :
    (/\ UploadParsed(p)
     /\ \E e \in Range(OrEmpty(lv[p].parsedData.experience)) : ~WellFormedEntry(e)) =>
      /\ res[p].status = "ok"
      /\ res[p].value[1].yearsOfExperience =
           calculateYearsOfExperience(
             Arr(SelectSeq(lv[p].parsedData.experience.v, WellFormedEntry)), now)

\* C8: within one ranking, candidates with identical experience entries are
\* sent with identical years of experience.
C8_SameNowWithinBatch ==
  \A p \in Procs :
    (RankOf(p) /\ lv[p].called) =>
      LET sent == ScorerCandidates(lv[p].candidates) IN
        \A i, j \in DOMAIN sent :
          sent[i].experience = sent[j].experience =>
            sent[i].years_of_experience = sent[j].years_of_experience

\* the columns of a row other than score and scoringDetails
Profile(row) ==
  [id |-> row.id, email |-> row.email, fullName |-> row.fullName,
   phone |-> row.phone, skills |-> row.skills, experience |-> row.experience,
   education |-> row.education, yearsOfExperience |-> row.yearsOfExperience,
   cvFilePath |-> row.cvFilePath, status |-> row.status]
Profiles(d) == {Profile(row) : row \in d}

\* C9: no step of rankCandidates, in a ranking that succeeds or fails,
\* changes the set of stored candidates or any column of a candidate other
\* than score and scoringDetails.
C9_RankKeepsProfiles ==
  [][(\E p \in Procs : RankStep(p)) => Profiles(db') = Profiles(db)]_vars

\* a ranking has written scores, and one has failed after writing
C9_Witness ==
  \E p \in Procs :
    /\ RankDone(p)
    /\ res[p].status = "BadRequest"
    /\ lv[p].writes >= 1
    /\ \E row \in db : row.score # 0 /\ row.scoringDetails # NullDetails
\* C10: a candidate without skills, experience entries and education entries
\* gets, in each of the five dimensions, 0 or the dimension's no-requirement
\* default of 100, the default only where the job states no requirement.
C10_EmptyProfileZeroOrDefault ==
  (/\ epc = "done"
   /\ cand.skills = <<>> /\ cand.experience = <<>> /\ cand.education = <<>>
   /\ cand.years_of_experience = 0) =>
    /\ IsZero(result.requiredSkillsScore)
    /\ IsZero(result.preferredSkillsScore)
    /\ IsZero(result.jobTitleScore)
    /\ IF job.min_years_experience = 0
         THEN IsHundred(result.yearsExperienceScore)
         ELSE IsZero(result.yearsExperienceScore)
    /\ IF job.required_education = <<>>
         THEN IsHundred(result.educationScore)
         ELSE IsZero(result.educationScore)

(***************************************************************************)
(* The ranking engine's dimension scores.                                  *)
(***************************************************************************)
\* a score as a fraction is at most / equal to another
ScoreLeq(a, b) == a.n * b.d <= b.n * a.d
ScoreEq(a, b) == a.n * b.d = b.n * a.d
InRange(s) == 0 <= s.n /\ s.n <= 100 * s.d

\* the positions of the target list whose skill the candidate has under
\* some spelling of the letters' case
MatchedPositions(skills, target) ==
  {i \in DOMAIN target :
     \E k \in DOMAIN skills : Lower(skills[k]) = Lower(target[i])}

\* C11: the required-skills score is 100 times the number of required
\* skills the candidate has (compared without regard to case) over the
\* number of required skills: 100 when the candidate has them all, 0 when it
\* has none of them, and always between 0 and 100.
C11_RequiredSkillsShare ==
  epc = "done" =>
    LET matched == MatchedPositions(cand.skills, job.required_skills)
        score == result.requiredSkillsScore
    IN /\ score.n * Len(job.required_skills)
            = 100 * Cardinality(matched) * score.d
       /\ (Cardinality(matched) = Len(job.required_skills)) => IsHundred(score)
       /\ (matched = {}) => IsZero(score)
       /\ InRange(score)
\* a candidate spelling its one skill in lower case has one of three
\* required skills
C11_Witness ==
  /\ epc = "done"
  /\ cand.skills = <<"swift">>
  /\ job.required_skills = <<"Swift", "iOS", "UIKit">>
  /\ ScoreEq(result.requiredSkillsScore, Ratio(100, 3))

\* the dimensions the reasoning text speaks of, in its order
Told(reasoning) == [i \in DOMAIN reasoning |-> reasoning[i].dimension]

\* C12: when the job prefers no skills, the preferred-skills score of every
\* candidate is the number 0 (nothing is divided by zero) and the reasoning
\* has no preferred-skills sentence, while keeping the other five in order.
C12_EmptyPreferredZeroAndSilent ==
  (epc = "done" /\ job.preferred_skills = <<>>) =>
    /\ result.preferredSkillsScore.d # 0
    /\ IsZero(result.preferredSkillsScore)
    /\ result.totalScore.d # 0
    /\ Told(result.reasoning)
         = <<"jobTitle", "jobDescription", "requiredSkills",
             "yearsExperience", "education">>
\* a candidate with skills scored for a job that prefers none
C12_Witness ==
  /\ epc = "done"
  /\ job.preferred_skills = <<>>
  /\ cand.skills = <<"Swift", "iOS", "SwiftUI">>
  /\ Len(result.reasoning) = 5

HighestLevel(education) ==
  IF \E i \in DOMAIN education : LevelOfText(education[i].degree) > 0
    THEN CHOOSE l \in 1..5 :
           /\ \E i \in DOMAIN education : LevelOfText(education[i].degree) = l
           /\ \A i \in DOMAIN education : LevelOfText(education[i].degree) <= l
    ELSE 0

Sixtieths(s) == (60 * s.n) \div s.d

ExampleScored ==
  /\ epc = "done"
  /\ job.required_skills = <<"Swift", "iOS", "UIKit", "CoreData", "REST API">>
  /\ job.preferred_skills = <<"SwiftUI", "Combine", "TDD">>
  /\ job.min_years_experience = 50
  /\ job.required_education = <<"Bachelor">>
  /\ cand.skills = <<"Swift", "iOS", "UIKit", "SwiftUI", "Combine">>
  /\ cand.years_of_experience = 60
  /\ cand.education = <<[degree |-> <<"Bachelor", "of", "Computer", "Science">>]>>

\* C16: for the documented example the engine gives a required-skills score
\* of 60 (3 of 5), a preferred-skills score of two thirds of 100 (66.7 to
\* one decimal), an experience-years score of 100 and an education score of
\* 100.
C16_DocumentedExampleScores ==
  ExampleScored =>
    /\ ScoreEq(result.requiredSkillsScore, Ratio(60, 1))
    /\ ScoreEq(result.preferredSkillsScore, Ratio(200, 3))
    /\ MathRound(10 * result.preferredSkillsScore.n,
                 result.preferredSkillsScore.d) = 667
    /\ IsHundred(result.yearsExperienceScore)
    /\ IsHundred(result.educationScore)
\* the example scored with its own title, description and prior titles
C16_Witness ==
  /\ ExampleScored
  /\ job.title = <<"Senior", "iOS", "Developer">>
  /\ Len(job.description) = 9
  /\ cand.experience
       = <<Title(<<"iOS", "Engineer">>), Title(<<"Mobile", "Developer">>)>>
  /\ result.reasoning[4].matched = 2 /\ result.reasoning[4].total = 3

\* the keywords a prior title shares with the job title, and the keywords
\* of the two together
SharedKeywords(i) ==
  Cardinality(Keywords(job.title) \cap Keywords(cand.experience[i].title))
AllKeywords(i) ==
  Cardinality(Keywords(job.title) \cup Keywords(cand.experience[i].title))
\* prior title i is at least as similar to the job title as prior title k
AtLeastAsSimilar(i, k) ==
  SharedKeywords(i) * AllKeywords(k) >= SharedKeywords(k) * AllKeywords(i)

\* the job-title score is the highest Jaccard similarity of a prior title
\* to the job title, times 1.5, capped at 100%; 0 without experience
TitleScoreIsBoostedJaccard ==
  epc = "done" =>
    IF cand.experience = <<>> THEN IsZero(result.jobTitleScore)
    ELSE \E i \in DOMAIN cand.experience :
           /\ \A k \in DOMAIN cand.experience : AtLeastAsSimilar(i, k)
           /\ IF 3 * SharedKeywords(i) >= 2 * AllKeywords(i)
                THEN IsHundred(result.jobTitleScore)
                ELSE result.jobTitleScore.n * 2 * AllKeywords(i)
                       = 300 * SharedKeywords(i) * result.jobTitleScore.d
\* the job title and the prior titles of the documented example
ExampleTitlesScored ==
  /\ epc = "done"
  /\ job.title = <<"Senior", "iOS", "Developer">>
  /\ cand.experience
       = <<Title(<<"iOS", "Engineer">>), Title(<<"Mobile", "Developer">>)>>

MatchedCount(c) == Cardinality(MatchedKeywords(job.description, c))

EmailsUnique == \A c1, c2 \in db : (c1.email = c2.email) => (c1 = c2)

\* in this step slot p takes a new request
Called(p) ==
  /\ Free(p)
  /\ <<pc'[p], req'[p], res'[p]>> # <<pc[p], req[p], res[p]>>

\* in this step slot p takes an upload that passes the controller and whose
\* address belongs to a stored candidate
DuplicateUploadCalled(p) ==
  /\ Called(p)
  /\ req'[p].op = "upload"
  /\ UploadRejection(req'[p].upload) = ""
  /\ \E c \in db : c.email = req'[p].upload.email

PdfOrDocx(r) ==
  /\ r.hasFile
  /\ r.mimetype \in
       {"application/pdf",
        "application/vnd.openxmlformats-officedocument.wordprocessingml.document"}

\* in this step slot p takes an upload without a PDF or DOCX file
BadUploadCalled(p) ==
  /\ Called(p)
  /\ req'[p].op = "upload"
  /\ ~PdfOrDocx(req'[p].upload)

\* C20: an upload without a file, or with a file that is neither PDF nor
\* DOCX, ends with a BadRequest in the controller: the service's steps
\* (file write, parser call, save) run only for PDF and DOCX files, and the
\* rejected request leaves the files and the candidates as they were.
C20_OnlyPdfAndDocxReachService ==
  /\ [](\A p \in Procs :
          (pc[p] \in {"u_write", "u_parse"}) => PdfOrDocx(req[p].upload))
  /\ [][\A p \in Procs :
          BadUploadCalled(p) =>
            /\ pc'[p] = "done"
            /\ res'[p].status = "BadRequest"
            /\ res'[p].msg = IF req'[p].upload.hasFile
                               THEN "Only PDF and DOCX files are allowed"
                               ELSE "File is required"
            /\ lv'[p].filePath = <<>>
            /\ files' = files /\ db' = db /\ nextId' = nextId]_vars
\* an image was sent after a candidate had been stored, and turned away
C20_Witness ==
  \E p \in Procs :
    /\ pc[p] = "done"
    /\ req[p].op = "upload"
    /\ req[p].upload.mimetype = "image/png"
    /\ res[p] = Failure("BadRequest", "Only PDF and DOCX files are allowed")
    /\ Cardinality(db) = 1 /\ Cardinality(files) = 1

(***************************************************************************)
(* The ranking form.                                                       *)
(***************************************************************************)
\* a skill input left empty or holding only white space
Blank(x) == x \in {"", " "}
NoBlankEntry(list) == \A i \in DOMAIN list : ~Blank(list[i])

\* C21: the form sends a rank request only when the job title and the job
\* description are non-empty and some required-skill input is non-blank;
\* the request sent has a non-empty requiredSkills, and neither its
\* requiredSkills nor its preferredSkills holds a blank entry.
C21_FormSendsOnlyCompleteRequests ==
  /\ (posted # NoBody) => (fpc = "posted")
  /\ (fpc = "posted") =>
       /\ formData.jobTitle # "" /\ formData.jobDescription # ""
       /\ \E i \in DOMAIN formData.requiredSkills :
            ~Blank(formData.requiredSkills[i])
       /\ posted.jobTitle = formData.jobTitle
       /\ posted.jobDescription = formData.jobDescription
       /\ Len(posted.requiredSkills) >= 1
       /\ NoBlankEntry(posted.requiredSkills)
       /\ NoBlankEntry(posted.preferredSkills)
\* a form with a blank and a filled required-skill input and a blank
\* preferred-skill input was submitted
C21_Witness ==
  /\ fpc = "posted"
  /\ formData.requiredSkills = <<" ", "Swift">>
  /\ formData.preferredSkills = <<"">>
  /\ posted.requiredSkills = <<"Swift">>
  /\ posted.preferredSkills = <<>>

\* the fields of the form other than the named list
OtherFields(f, list) ==
  IF list = "required"
    THEN <<f.jobTitle, f.jobDescription, f.preferredSkills,
           f.minYearsExperience, f.requiredEducation>>
    ELSE <<f.jobTitle, f.jobDescription, f.requiredSkills,
           f.minYearsExperience, f.requiredEducation>>

\* an action on the skill inputs of the named list
SkillAction(type) ==
  \/ addSkillField(type)
  \/ \E index \in 1..MaxFields : removeSkillField(type, index)
  \/ \E index \in 1..MaxFields, value \in Texts : updateSkill(type, index, value)

\* C30: through every sequence of addSkillField, removeSkillField and
\* updateSkill the required-skills list keeps at least one input (removing
\* its only input leaves a single blank one), while the preferred-skills
\* list may be emptied; an action on one list changes neither the other
\* list nor the other fields of the form.
C30_RequiredListNeverEmpty ==
  /\ [](Len(formData.requiredSkills) >= 1)
  /\ [][\A type \in {"required", "preferred"} :
          SkillAction(type) =>
            OtherFields(formData', type) = OtherFields(formData, type)]_vars
  /\ [][\A index \in 1..MaxFields :
          (removeSkillField("required", index)
             /\ Len(formData.requiredSkills) = 1) =>
            formData'.requiredSkills = <<"">>]_vars
  /\ [][\A index \in 1..MaxFields :
          removeSkillField("preferred", index) =>
            Len(formData'.preferredSkills) = Len(formData.preferredSkills) - 1]_vars
\* every preferred-skill input was removed, and the required list holds
\* its single blank input
C30_Witness ==
  /\ fpc = "editing"
  /\ formData.requiredSkills = <<"">>
  /\ formData.preferredSkills = <<>>
  /\ formData.jobTitle = "Swift"

\* in this step slot p takes a delete whose id belongs to no stored candidate
UnknownDeleteCalled(p) ==
  /\ Called(p)
  /\ req'[p].op = "delete"
  /\ RowsById(db, lv'[p].id) = {}

\* C27: a delete called with an id that belongs to no stored candidate ends
\* with NotFound at once: no file is removed, the cleanup endpoint is not
\* called and the stored candidates are unchanged.
C27_UnknownIdNotFound ==
  [][\A p \in Procs :
       UnknownDeleteCalled(p) =>
         /\ pc'[p] = "done"
         /\ res'[p] = Failure("NotFound", "Candidate with ID not found")
         /\ ~lv'[p].called
         /\ db' = db /\ files' = files]_vars


\* slot p is in deleteCandidate, past findOne
Deleting(p) == pc[p] \in {"d_unlink", "d_cleanup", "d_delete"}

\* findOne(id) raises NotFoundException and findAll has no candidate of that id
Absent(id) == RowsById(db, id) = {}

\* C28: once deleteCandidate has found the candidate, neither a failing file
\* removal nor a failing cleanup request ends it: it goes on to delete the
\* row, and after it has returned successfully the candidate is absent from
\* the table.
C28_DeleteBestEffort ==
  /\ [](\A p \in Procs :
          (req[p].op = "delete" /\ pc[p] = "done" /\ res[p].status = "ok") =>
            Absent(lv[p].id))
  /\ [][\A p \in Procs :
          (Deleting(p) /\ pc'[p] # pc[p]) =>
            IF pc[p] = "d_delete"
              THEN pc'[p] = "done" /\ RowsById(db', lv[p].id) = {}
              ELSE Deleting(p)']_vars
\* a delete has returned successfully although the CV file could not be
\* removed and the cleanup request failed; the candidate is gone
C28_Witness ==
  \E p \in Procs :
    /\ req[p].op = "delete" /\ pc[p] = "done" /\ res[p].status = "ok"
    /\ lv[p].candidate.cvFilePath \in files
    /\ lv[p].resp = <<FALSE>>
    /\ Absent(lv[p].id)


\* slot p holds a deleteCandidate call whose findOne found the candidate id
FoundForDelete(p, id) ==
  /\ req[p].op = "delete"
  /\ lv[p].id = id
  /\ lv[p].candidate # <<>>

\* slot p holds such a call, ended with the response of the given status
DeleteEnded(p, id, status) ==
  /\ FoundForDelete(p, id)
  /\ pc[p] = "done"
  /\ res[p].status = status

\* C29: of the deleteCandidate calls that found the same candidate, the one
\* whose delete removes the row returns successfully and every other one ends
\* with NotFound: no two of them succeed, the row is removed once and never
\* comes back, and the candidate is absent once any of them has ended.
C29_ConcurrentDeletesOneWinner ==
  /\ [](\A id \in 1..MaxId : \A p, q \in Procs :
          /\ (DeleteEnded(p, id, "ok") /\ DeleteEnded(q, id, "ok")) => p = q
          /\ (FoundForDelete(p, id) /\ pc[p] = "done") =>
                /\ res[p].status \in {"ok", "NotFound"}
                /\ Absent(id))
  /\ [][\A p \in Procs :
          (pc[p] = "d_delete" /\ pc'[p] # pc[p]) =>
            /\ pc'[p] = "done"
            /\ res'[p] = IF Absent(lv[p].id)
                           THEN Failure("NotFound", "Candidate with ID not found")
                           ELSE Ok(<<>>)
            /\ db' = db \ {lv[p].candidate}]_vars
  /\ [][\A id \in 1..MaxId : (id < nextId /\ Absent(id)) => Absent(id)']_vars
\* two calls found the same candidate; one has returned successfully, the
\* other has ended with NotFound, and the candidate is gone
C29_Witness ==
  \E id \in 1..MaxId : \E p, q \in Procs :
    /\ p # q
    /\ DeleteEnded(p, id, "ok")
    /\ DeleteEnded(q, id, "NotFound")
    /\ Absent(id)


\* the file is the CV of a stored candidate
OwnedFile(f) == \E c \in db : c.cvFilePath = f

\* the file was written by an upload that has not ended yet
PendingFile(f) == \E p \in Procs : pc[p] = "u_parse" /\ lv[p].filePath = f

\* C26: every file in the upload directory is the CV of a stored candidate,
\* or was written by an upload that is still in progress.
C26_NoOrphanFiles == \A f \in files : OwnedFile(f) \/ PendingFile(f)


\* in this step the upload of slot p goes on after a failed call of the parser
ParserFailedFor(p) ==
  /\ pc[p] = "u_parse"
  /\ pc'[p] # pc[p]
  /\ lv'[p].parsedData = ParseFailed

\* C25: an upload whose call of the parser failed ends without error: it
\* stores and returns a new candidate with the submitted email and name, no
\* skills, experience or education, 0 years of experience and status
\* 'pending'.
C25_UploadSurvivesParserFailure ==
  [][\A p \in Procs :
       ParserFailedFor(p) =>
         /\ pc'[p] = "done"
         /\ res'[p].status = "ok"
         /\ \E candidate \in db' \ db :
              /\ res'[p].value = <<candidate>>
              /\ db' = db \cup {candidate}
              /\ candidate.email = req[p].upload.email
              /\ candidate.fullName = req[p].upload.fullName
              /\ candidate.skills = <<>>
              /\ candidate.experience = <<>>
              /\ candidate.education = <<>>
              /\ candidate.yearsOfExperience = Num(0)
              /\ candidate.status = "pending"]_vars
\* an upload whose CV the parser would have read has ended after a failed
\* call of the parser, and its candidate is stored without skills
C25_Witness ==
  \E p \in Procs :
    /\ req[p].op = "upload" /\ pc[p] = "done" /\ res[p].status = "ok"
    /\ lv[p].filePath # <<>>
    /\ lv[p].parsedData = ParseFailed
    /\ ParseCv(req[p].upload.cv) # ParseFailed
    /\ \E candidate \in db :
         /\ res[p].value = <<candidate>>
         /\ candidate.skills = <<>>
         /\ candidate.yearsOfExperience = Num(0)


\* the stored row of the candidate has the score and the scoring details that
\* the row read at the start of the call had
ScoreAsRead(candidate) ==
  \E row \in db :
    /\ row.id = candidate.id
    /\ row.score = candidate.score
    /\ row.scoringDetails = candidate.scoringDetails

\* C22: when rankCandidates has ended with an error, every candidate it read
\* has the score and the scoring details it had before the call.
C22_RankAllOrNothing ==
  \A p \in Procs :
    (req[p].op = "rank" /\ pc[p] = "done" /\ res[p].status # "ok") =>
      \A i \in DOMAIN lv[p].candidates : ScoreAsRead(lv[p].candidates[i])


\* slot p holds a rankCandidates call that sent candidates to the scorer and
\* has returned its list
RankReturned(p) ==
  /\ req[p].op = "rank"
  /\ pc[p] = "done"
  /\ res[p].status = "ok"
  /\ lv[p].candidates # <<>>

\* the stored candidates that have been scored
ScoredRows == {row \in db : row.scoringDetails # NullDetails}

\* C23: once two rankCandidates calls for different jobs have both returned,
\* the stored scores all come from one of the two jobs, and every score in a
\* returned list was computed for the job of the call that returned it.
C23_RankingsDoNotMix ==
  \A p, q \in Procs :
    (/\ RankReturned(p) /\ RankReturned(q)
     /\ req[p].rank.jobTitle # req[q].rank.jobTitle) =>
      /\ \A c1, c2 \in ScoredRows : c1.scoringDetails.job = c2.scoringDetails.job
      /\ \A i \in DOMAIN res[p].value :
           res[p].value[i].scoringDetails.job
             \in {req[p].rank.jobTitle.v, NullDetails.job}

\* the entry of the scorer's response for the candidate
ScorerEntries(p, id) ==
  {lv[p].resp[i] : i \in {j \in DOMAIN lv[p].resp : lv[p].resp[j].candidate_id = id}}

\* C24: the list a successful rankCandidates returns holds exactly the
\* candidates it sent to the scorer, each with the score and the scoring
\* details the scorer answered in that call.
C24_ResultIsWhatWasScored ==
  \A p \in Procs :
    RankReturned(p) =>
      /\ {res[p].value[i].id : i \in DOMAIN res[p].value}
           = {lv[p].candidates[i].id : i \in DOMAIN lv[p].candidates}
      /\ Len(res[p].value) = Len(lv[p].candidates)
      /\ \A i \in DOMAIN res[p].value :
           \E e \in ScorerEntries(p, res[p].value[i].id) :
             /\ res[p].value[i].score = e.score
             /\ res[p].value[i].scoringDetails = e.scoring_details

====
